---- MODULE Spec2Model ----
(***************************************************************************)
(* Ingestion gateway of bot/index.js: the message_create handler (the      *)
(* Event Filter), the queue colaComprobantes with its guard procesando,    *)
(* the drain loop procesarCola (the Forwarder), and the handlers and       *)
(* timers that supervise the session (the Session Supervisor).             *)
(*                                                                         *)
(* Node runs one callback at a time; a callback runs until it returns or   *)
(* reaches an await.  Every action below is one such run: the code from    *)
(* one suspension point to the next.                                       *)
(***************************************************************************)
EXTENDS Integers, Sequences, FiniteSets, TLC

\* Number of message_create events the messaging library delivers.
MaxEvents == 2

\* Number of disconnected events the messaging library emits.
MaxDisconnects == 2

\* Events are numbered in the order the library delivers them.
Events == 1..MaxEvents

(***************************************************************************)
(* Strings the code inspects are sequences, so that trim() and endsWith()  *)
(* are computed and not assumed.                                           *)
(***************************************************************************)
StatusBroadcast == <<"status", "@broadcast">>
GroupSuffix == <<"@g.us">>
Addresses == {<<"549", "@c.us">>, StatusBroadcast, <<"120", "@g.us">>}

WhiteSpace == {" ", "\n"}
Bodies == {<<>>, <<" ", "\n">>, <<" ", "h", "\n">>}

Messages == [from : Addresses, fromMe : BOOLEAN, hasMedia : BOOLEAN, body : Bodies]

\* The slot of an event whose msg has no field left to be read.
NoMsg == [from |-> <<>>, fromMe |-> FALSE, hasMedia |-> FALSE, body |-> <<>>]

\* The allow-list with GIF images let in.
TiposConGif == {"application/pdf", "image/jpeg", "image/png", "image/jpg", "image/gif"}

\* const tiposValidos = ['application/pdf', 'image/jpeg', 'image/png', 'image/jpg']
tiposValidos == {"application/pdf", "image/jpeg", "image/png", "image/jpg"}
MimeTypes == tiposValidos \cup {"image/gif"}

\* What msg.downloadMedia() settles with: a media object, nothing, or an error.
DownloadResults ==
    [kind : {"media"}, mimetype : MimeTypes]
        \cup {[kind |-> "null", mimetype |-> ""], [kind |-> "throw", mimetype |-> ""]}

NoMedia == [kind |-> "none", mimetype |-> ""]

\* String.prototype.endsWith
EndsWith(s, suffix) ==
    /\ Len(s) >= Len(suffix)
    /\ SubSeq(s, Len(s) - Len(suffix) + 1, Len(s)) = suffix

RECURSIVE TrimStart(_)
TrimStart(s) ==
    IF s # <<>> /\ Head(s) \in WhiteSpace THEN TrimStart(Tail(s)) ELSE s

RECURSIVE TrimEnd(_)
TrimEnd(s) ==
    IF s # <<>> /\ s[Len(s)] \in WhiteSpace THEN TrimEnd(SubSeq(s, 1, Len(s) - 1)) ELSE s

\* trim() left out: the body as received.
TrimIdentity(s) == s

\* String.prototype.trim
Trim(s) == TrimEnd(TrimStart(s))

\* const texto = (msg.body || '').trim()
Texto(m) == Trim(m.body)

(***************************************************************************)
(* The replies the code sends.                                             *)
(***************************************************************************)
MsgSoloComprobantes == "Este numero solo recibe comprobantes (imagen JPG/PNG o PDF)."
MsgGenerico == "Error al procesar comprobante."
MsgApiCaida == "Error: El sistema principal no esta respondiendo (API caida)."
MsgTimeout == "Error: Tiempo de espera agotado al procesar."

(***************************************************************************)
(* What axios.post settles with.  A response carries the parsed body       *)
(* (response.data): an object with the optional fields of the extraction   *)
(* service, or null.  A failure carries the condition that made the call   *)
(* fail.                                                                   *)
(***************************************************************************)
DataShapes == {"absent", "empty", "full"}

Responses ==
    [kind : {"response"}, body : {"object"}, success : BOOLEAN,
     message : BOOLEAN, data : DataShapes, cond : {"none"}]
        \cup {[kind |-> "response", body |-> "null", success |-> FALSE,
               message |-> FALSE, data |-> "absent", cond |-> "none"]}

\* refused: nothing listens on API_URL; socket_timeout: the operating system
\* gave up on the connection; request_timeout: API_TIMEOUT elapsed with no
\* response; bad_status: the service answered with a status outside 2xx.
Conditions == {"refused", "socket_timeout", "request_timeout", "bad_status"}

Failures ==
    [kind : {"error"}, body : {"none"}, success : {FALSE},
     message : {FALSE}, data : {"absent"}, cond : Conditions]

Outcomes == Responses \cup Failures

\* error.code of the error axios rejects with.  The call passes only
\* { timeout, headers }: with no transitional.clarifyTimeoutError, axios
\* reports its own request timeout as ECONNABORTED; ETIMEDOUT is the code of a
\* socket-level timeout.
AxiosErrorCode(cond) ==
    CASE cond = "refused" -> "ECONNREFUSED"
      [] cond = "socket_timeout" -> "ETIMEDOUT"
      [] cond = "request_timeout" -> "ECONNABORTED"
      [] OTHER -> "ERR_BAD_RESPONSE"

\* error.code as the catch block reads it: a TypeError raised by
\* response.data.success on a null body has no code.
ErrorCode(out) ==
    IF out.kind = "error" THEN AxiosErrorCode(out.cond) ELSE "undefined"

\* The try block as it would be if a response without the success flag were
\* raised as an error.
ThrowsOnSoftFailure(out) ==
    \/ out.kind = "error"
    \/ out.body = "null"
    \/ ~out.success

\* Whether the try block ends in the catch block: axios.post rejected, or
\* response.data.success was read off a null body.  The optional chaining in
\* response.data.data?.monto_numerico keeps an absent data field from throwing.
Throws(out) ==
    \/ out.kind = "error"
    \/ out.kind = "response" /\ out.body = "null"

\* What an iteration holds of the outcome once axios.post has settled: the
\* response or the error, less the optional fields, which reach console.log
\* only.
Held(out) ==
    [kind |-> out.kind, body |-> out.body, success |-> out.success, cond |-> out.cond]

NoOutcome == [kind |-> "none", body |-> "none", success |-> FALSE, cond |-> "none"]

\* The text the catch block picks.
ErrorMsg(out) ==
    IF ErrorCode(out) = "ECONNREFUSED" THEN MsgApiCaida
    ELSE IF ErrorCode(out) = "ETIMEDOUT" THEN MsgTimeout
    ELSE MsgGenerico

(***************************************************************************)
(* The Event Filter's tests, in the order the handler makes them.          *)
(***************************************************************************)
\* msg.from === 'status@broadcast'
IsBroadcast(m) == m.from = StatusBroadcast

\* The group test left out.
NeverGroup(m) == FALSE

\* msg.from.endsWith('@g.us')
IsGroup(m) == EndsWith(m.from, GroupSuffix)

\* The allow-list test passing images only.
AcceptedImagesOnly(r) ==
    r.kind = "media" /\ r.mimetype \in {"image/jpeg", "image/png", "image/jpg"}

\* What the handler does with what msg.downloadMedia() settled with: a media
\* object passes if (!media) and then tiposValidos.includes(media.mimetype).
Accepted(r) == r.kind = "media" /\ r.mimetype \in tiposValidos

\* The branch the synchronous part of the handler takes.
FilterVerdict(m) ==
    IF m.fromMe THEN "fromMe"
    ELSE IF IsBroadcast(m) THEN "broadcast"
    ELSE IF IsGroup(m) THEN "group"
    ELSE IF ~m.hasMedia THEN (IF Len(Texto(m)) > 0 THEN "notice" ELSE "silent")
    ELSE "download"

(***************************************************************************)
(* The queue.                                                              *)
(***************************************************************************)
\* unshift in place of push.
PushFront(q, e) == <<e>> \o q

\* colaComprobantes.push({ media, msg })
Push(q, e) == Append(q, e)

\* The loop test off by one.
MoreThanOne(q) == Len(q) > 1

\* while (colaComprobantes.length > 0)
HasNext(q) == Len(q) > 0

\* The guard read as set whatever its value.
AlwaysDraining(p) == TRUE

\* The guard left out.
NeverDraining(p) == FALSE

\* if (procesando) return
AlreadyDraining(p) == p

\* The guard left set when the loop ends.
GuardLeftSet == TRUE

\* procesando = false, after the while loop
GuardAtExit == FALSE

\* The head read but not removed.
KeepHead(q) == q

\* What colaComprobantes.shift() leaves in the queue.
Rest(q) == Tail(q)

\* The failed item pushed back for another attempt.
Requeue(q, e) == Append(q, e)

\* The catch block makes no retry: the queue as the failed forward of item e
\* leaves it.
AfterFailure(q, e) == q

\* msg.reply awaited outside a try: a rejection ends the activation.
DiesOnFailedReply(ok) == IF ok THEN "delay" ELSE "dead"

\* The iteration ended at the reply, with no delay taken.
NoDelayAfterReply(ok) == "none"

\* try { await msg.reply(errorMsg); } catch (e) { } : where the drain loop
\* goes on once the reply has settled.
AfterReply(ok) == "delay"

\* The generic text sent first and the chosen text after it.
ReportedTwice(rs, text) ==
    Append(Append(rs, [text |-> MsgGenerico, st |-> "fail"]),
           [text |-> text, st |-> "pending"])

\* await msg.reply(errorMsg), the only msg.reply of the catch block: the
\* replies made on the item's msg once the call is made.
Reported(rs, text) == Append(rs, [text |-> text, st |-> "pending"])

\* The body of the POST: { file_base64, sender_phone, mime_type, timestamp,
\* texto_completo } as read off the item's media and msg.
Request(m, md) ==
    [sender_phone |-> m.from, mime_type |-> md.mimetype, texto_completo |-> m.body]

NoRequest == Request(NoMsg, NoMedia)

(***************************************************************************)
(* State.                                                                  *)
(*   msgs[e]     the msg object of event e, from its delivery to the last  *)
(*               read of its fields (the filter's tests, or the building   *)
(*               of the POST body); msg.reply is tracked by replies[e]     *)
(*   media[e]    the media object downloaded for e: of an accepted type,   *)
(*               until the POST body is built from it; of another type,    *)
(*               as the callback last held it                              *)
(*   hpc[e]      where the message_create callback of e stands             *)
(*   verdict[e]  the branch by which that callback returned                *)
(*   replies[e]  the msg.reply calls made on e's msg, in order             *)
(*   cola        colaComprobantes (items are named by their event)         *)
(*   procesando  the draining guard                                        *)
(*   act[a]      the procesarCola call made by the callback of event a,    *)
(*               once it is past the guard: its position, the item of the  *)
(*               current iteration, the POST in flight and what it         *)
(*               settled with                                              *)
(*   pushed      the items in the order they were pushed                   *)
(*   forwarded   the items in the order their axios.post calls began       *)
(***************************************************************************)
VARIABLES msgs, media, hpc, verdict, replies, cola, procesando, act, pushed, forwarded

(***************************************************************************)
(* State of the session's supervision.                                     *)
(*   alive         the Node process is running                             *)
(*   initializing  the client.initialize() calls that have not settled,    *)
(*                 counted by the place of the call: the one at startup,   *)
(*                 which has a catch handler, and those of the reconnect   *)
(*                 timers, which have none                                 *)
(*   timers        the reconnect timers armed and not yet fired            *)
(*   disconnects   the disconnected events emitted so far                  *)
(*   reconnects    the client.initialize() calls made by reconnect timers  *)
(*   readyFired    the flag of the startup watchdog                        *)
(*   watchdog      the startup watchdog's timer                            *)
(*   marker        the last machine-parsable marker written to the log:    *)
(*                 [QR_DATA] or [CONNECTED]; the other lines of the log    *)
(*                 are not part of the state                               *)
(***************************************************************************)
VARIABLES alive, initializing, timers, disconnects, reconnects, readyFired, watchdog, marker

qvars == <<msgs, media, hpc, verdict, replies, cola, procesando, act, pushed, forwarded>>

svars == <<alive, initializing, timers, disconnects, reconnects, readyFired, watchdog, marker>>

vars == <<msgs, media, hpc, verdict, replies, cola, procesando, act, pushed, forwarded,
          alive, initializing, timers, disconnects, reconnects, readyFired, watchdog, marker>>

Inactive == [pc |-> "none", cur |-> 0, res |-> NoOutcome, req |-> NoRequest]

Init ==
    /\ msgs = [e \in Events |-> NoMsg]
    /\ media = [e \in Events |-> NoMedia]
    /\ hpc = [e \in Events |-> "idle"]
    /\ verdict = [e \in Events |-> "none"]
    /\ replies = [e \in Events |-> <<>>]
    /\ cola = <<>>
    /\ procesando = FALSE
    /\ act = [e \in Events |-> Inactive]
    /\ pushed = <<>>
    /\ forwarded = <<>>
    /\ alive = TRUE
    /\ initializing = [startup |-> 1, reconnect |-> 0]
    /\ timers = 0
    /\ disconnects = 0
    /\ reconnects = 0
    /\ readyFired = FALSE
    /\ watchdog = "armed"
    /\ marker = "none"

\* A callback of the gateway runs in a process that is running, and touches
\* nothing of the session's supervision.
InProcess == alive /\ UNCHANGED svars

\* A message_create callback is in its synchronous part: nothing else runs.
Running == \E e \in Events : hpc[e] = "filter"

\* A settled msg.reply: the last call made on that msg is no longer pending.
Settle(rs, ok) == [rs EXCEPT ![Len(rs)].st = IF ok THEN "ok" ELSE "fail"]

\* The library emits message_create with the next message.
Deliver(e) ==
    /\ InProcess
    /\ ~Running
    /\ hpc[e] = "idle"
    /\ \A d \in Events : d < e => hpc[d] # "idle"
    /\ \E m \in Messages : msgs' = [msgs EXCEPT ![e] = m]
    /\ hpc' = [hpc EXCEPT ![e] = "filter"]
    /\ UNCHANGED <<media, verdict, replies, cola, procesando, act, pushed, forwarded>>

\* The callback from its first line to its first await or return.
Filter(e) ==
    /\ InProcess
    /\ hpc[e] = "filter"
    /\ LET v == FilterVerdict(msgs[e])
           suspended == v \in {"notice", "download"}
       IN  /\ hpc' = [hpc EXCEPT ![e] =
                        IF v = "notice" THEN "replying"
                        ELSE IF v = "download" THEN "downloading"
                        ELSE "done"]
           /\ verdict' = [verdict EXCEPT ![e] = IF suspended THEN @ ELSE v]
           /\ replies' = [replies EXCEPT ![e] =
                            IF v = "notice"
                            THEN Append(@, [text |-> MsgSoloComprobantes, st |-> "pending"])
                            ELSE @]
           /\ msgs' = [msgs EXCEPT ![e] = IF v = "download" THEN @ ELSE NoMsg]
    /\ UNCHANGED <<media, cola, procesando, act, pushed, forwarded>>

\* await msg.reply('Este numero solo recibe ...') settles; a failure is logged.
TextReplyDone(e) ==
    /\ InProcess
    /\ ~Running
    /\ hpc[e] = "replying"
    /\ \E ok \in BOOLEAN : replies' = [replies EXCEPT ![e] = Settle(@, ok)]
    /\ hpc' = [hpc EXCEPT ![e] = "done"]
    /\ verdict' = [verdict EXCEPT ![e] = "notice"]
    /\ UNCHANGED <<msgs, media, cola, procesando, act, pushed, forwarded>>

\* The head of the while loop as activation a reaches it, the queue being q and
\* the objects held being ms and md: shift the head and start its axios.post,
\* or leave the loop and clear the guard.
Iterate(a, q, ms, md) ==
    IF HasNext(q)
    THEN /\ cola' = Rest(q)
         /\ act' = [act EXCEPT ![a] =
                      [pc |-> "posting", cur |-> Head(q), res |-> NoOutcome,
                       req |-> Request(ms[Head(q)], md[Head(q)])]]
         /\ msgs' = [ms EXCEPT ![Head(q)] = NoMsg]
         /\ media' = [md EXCEPT ![Head(q)] = NoMedia]
         /\ forwarded' = Append(forwarded, Head(q))
         /\ procesando' = TRUE
    ELSE /\ cola' = q
         /\ act' = [act EXCEPT ![a] = Inactive]
         /\ msgs' = ms
         /\ media' = md
         /\ forwarded' = forwarded
         /\ procesando' = GuardAtExit

\* procesarCola() called by the callback of event a.
procesarCola(a, q, ms, md) ==
    IF AlreadyDraining(procesando)
    THEN /\ cola' = q
         /\ msgs' = ms
         /\ media' = md
         /\ UNCHANGED <<procesando, act, forwarded>>
    ELSE Iterate(a, q, ms, md)

\* await msg.downloadMedia() settles and the callback runs to its end.  A
\* media object of a type outside the allow-list stays in media[e], as the one
\* the callback last held.
DownloadDone(e) ==
    /\ InProcess
    /\ ~Running
    /\ hpc[e] = "downloading"
    /\ hpc' = [hpc EXCEPT ![e] = "done"]
    /\ \E r \in DownloadResults :
         IF Accepted(r)
         THEN /\ pushed' = Append(pushed, e)
              /\ procesarCola(e, Push(cola, e), msgs, [media EXCEPT ![e] = r])
              /\ verdict' = [verdict EXCEPT ![e] = "queued"]
              /\ UNCHANGED replies
         ELSE /\ verdict' = [verdict EXCEPT ![e] =
                               IF r.kind = "throw" THEN "downloadError"
                               ELSE IF r.kind = "null" THEN "noMedia"
                               ELSE "unsupported"]
              /\ msgs' = [msgs EXCEPT ![e] = NoMsg]
              /\ media' = [media EXCEPT ![e] = IF r.kind = "media" THEN r ELSE @]
              /\ UNCHANGED <<replies, cola, procesando, act, pushed, forwarded>>

\* await axios.post(...) settles: the try block's branches, or the catch block
\* up to its await msg.reply(errorMsg).
PostDone(a) ==
    /\ InProcess
    /\ ~Running
    /\ act[a].pc = "posting"
    /\ \E out \in Outcomes :
         IF Throws(out)
         THEN /\ replies' = [replies EXCEPT ![act[a].cur] = Reported(@, ErrorMsg(out))]
              /\ act' = [act EXCEPT ![a].pc = "replying", ![a].res = Held(out),
                                    ![a].req = NoRequest]
              /\ cola' = AfterFailure(cola, act[a].cur)
         ELSE /\ replies' = replies
              /\ act' = [act EXCEPT ![a].pc = "delay", ![a].res = Held(out),
                                    ![a].req = NoRequest]
              /\ cola' = cola
    /\ UNCHANGED <<msgs, media, hpc, verdict, procesando, pushed, forwarded>>

\* await msg.reply(errorMsg) settles; a failure is swallowed.  The loop goes on
\* to its setTimeout of 2 seconds.
ReplyDone(a) ==
    /\ InProcess
    /\ ~Running
    /\ act[a].pc = "replying"
    /\ \E ok \in BOOLEAN :
         /\ replies' = [replies EXCEPT ![act[a].cur] = Settle(@, ok)]
         /\ act' = [act EXCEPT ![a].pc = AfterReply(ok)]
    /\ UNCHANGED <<msgs, media, hpc, verdict, cola, procesando, pushed, forwarded>>

\* The 2 seconds have passed: the iteration ends and the loop tests the queue
\* again.
DelayDone(a) ==
    /\ InProcess
    /\ ~Running
    /\ act[a].pc = "delay"
    /\ Iterate(a, cola, msgs, media)
    /\ UNCHANGED <<hpc, verdict, replies, pushed>>

Next ==
    \/ \E e \in Events : Deliver(e)
    \/ \E e \in Events : Filter(e)
    \/ \E e \in Events : TextReplyDone(e)
    \/ \E e \in Events : DownloadDone(e)
    \/ \E a \in Events : PostDone(a)
    \/ \E a \in Events : ReplyDone(a)
    \/ \E a \in Events : DelayDone(a)

Spec == Init /\ [][Next]_vars

\* Every callback the event loop holds runs, and every awaited promise settles
\* (axios.post within API_TIMEOUT); the library is free to deliver no message.
Fairness ==
    /\ WF_vars(\E e \in Events : Filter(e))
    /\ WF_vars(\E e \in Events : TextReplyDone(e))
    /\ WF_vars(\E e \in Events : DownloadDone(e))
    /\ WF_vars(\E a \in Events : PostDone(a))
    /\ WF_vars(\E a \in Events : ReplyDone(a))
    /\ WF_vars(\E a \in Events : DelayDone(a))

FairSpec == Spec /\ Fairness

(***************************************************************************)
(* The session's supervision: the handlers of the library's lifecycle      *)
(* events, the reconnect timers and the startup watchdog.  The library is  *)
(* free to emit its lifecycle events in any order and at any time, as no   *)
(* handler tests what state the session is in.                             *)
(***************************************************************************)
\* What Node does with a promise rejected with no handler on it: it raises the
\* rejection as an uncaught exception, which ends the process (the default
\* since Node 15), or it prints a warning and goes on (the default before, and
\* --unhandled-rejections=warn).  No file of the repository fixes the runtime.
UnhandledRejections == {"throw", "warn"}

\* The lifecycle events whose handlers write a line to the log and do nothing
\* else.
LoggedEvents == {"authenticated", "auth_failure", "change_state", "loading_screen"}

\* client.initialize().catch(...) at startup; client.initialize() alone in the
\* reconnect timer.
HasCatch(origin) == origin = "startup"

\* The queue emptied when the session is lost.
DroppedOnDisconnect(q) == <<>>

\* The disconnected handlers name neither colaComprobantes nor procesando: the
\* queue as they leave it.
AcrossDisconnect(q) == q

\* A client.initialize() call settles.  A rejection of the call made at
\* startup is logged by its catch handler, with its stack; a rejection of a
\* call made by a reconnect timer has no handler.
InitializeSettles(origin) ==
    /\ alive
    /\ initializing[origin] > 0
    /\ initializing' = [initializing EXCEPT ![origin] = @ - 1]
    /\ \E ok \in BOOLEAN :
         IF ok \/ HasCatch(origin)
         THEN UNCHANGED alive
         ELSE \E mode \in UnhandledRejections : alive' = (mode = "warn")
    /\ UNCHANGED <<timers, disconnects, reconnects, readyFired, watchdog, marker>>
    /\ UNCHANGED qvars

\* client.on('qr'): the code is printed between the [QR_DATA] markers; the
\* image file is written if QR_PATH is set, a failure to write it is logged.
Qr ==
    /\ alive
    /\ marker' = "QR_DATA"
    /\ UNCHANGED <<alive, initializing, timers, disconnects, reconnects, readyFired, watchdog>>
    /\ UNCHANGED qvars

\* client.on('authenticated'), both client.on('auth_failure'),
\* client.on('change_state'), client.on('loading_screen').
LogOnly(ev) ==
    /\ alive
    /\ UNCHANGED svars
    /\ UNCHANGED qvars

\* Both client.on('ready'): the [CONNECTED] marker, and the watchdog's flag.
Ready ==
    /\ alive
    /\ marker' = "CONNECTED"
    /\ readyFired' = TRUE
    /\ UNCHANGED <<alive, initializing, timers, disconnects, reconnects, watchdog>>
    /\ UNCHANGED qvars

\* Both client.on('disconnected'): the first logs, the second logs and arms a
\* reconnect timer.
Disconnected ==
    /\ alive
    /\ disconnects < MaxDisconnects
    /\ disconnects' = disconnects + 1
    /\ timers' = timers + 1
    /\ cola' = AcrossDisconnect(cola)
    /\ UNCHANGED <<alive, initializing, reconnects, readyFired, watchdog, marker>>
    /\ UNCHANGED <<msgs, media, hpc, verdict, replies, procesando, act, pushed, forwarded>>

\* A reconnect timer fires: client.initialize() is called.
ReconnectTimer ==
    /\ alive
    /\ timers > 0
    /\ timers' = timers - 1
    /\ reconnects' = reconnects + 1
    /\ initializing' = [initializing EXCEPT !.reconnect = @ + 1]
    /\ UNCHANGED <<alive, disconnects, readyFired, watchdog, marker>>
    /\ UNCHANGED qvars

\* The startup watchdog fires: a warning is logged if ready has not fired.
Watchdog ==
    /\ alive
    /\ watchdog = "armed"
    /\ watchdog' = "fired"
    /\ UNCHANGED <<alive, initializing, timers, disconnects, reconnects, readyFired, marker>>
    /\ UNCHANGED qvars

SessionNext ==
    \/ \E origin \in {"startup", "reconnect"} : InitializeSettles(origin)
    \/ Qr
    \/ \E ev \in LoggedEvents : LogOnly(ev)
    \/ Ready
    \/ Disconnected
    \/ ReconnectTimer
    \/ Watchdog

\* The supervision alone, no message being delivered.
SessionSpec == Init /\ [][SessionNext]_vars

SystemNext == Next \/ SessionNext

\* The gateway whole.
SystemSpec == Init /\ [][SystemNext]_vars

(***************************************************************************)
(* Vocabulary of the properties.                                           *)
(***************************************************************************)
Range(q) == {q[i] : i \in 1..Len(q)}

Count(q, e) == Cardinality({i \in 1..Len(q) : q[i] = e})

IsPrefix(p, q) == Len(p) <= Len(q) /\ SubSeq(q, 1, Len(p)) = p

\* The activations that have an axios.post in flight.
Posting == {a \in Events : act[a].pc = "posting"}

\* The last msg.reply made on e's msg failed.
ReplyFailed(e) == replies[e] # <<>> /\ replies[e][Len(replies[e])].st = "fail"

\* Nothing is queued, in flight or draining.
Quiet ==
    /\ ~procesando
    /\ cola = <<>>
    /\ \A a \in Events : act[a].pc = "none"
    /\ Range(pushed) \subseteq Range(forwarded)

\* The senders the filter is to ignore, as the specification names them.
FromGroup(m) == m.from # <<>> /\ m.from[Len(m.from)] = "@g.us"
Excluded(m) == m.fromMe \/ m.from = <<"status", "@broadcast">> \/ FromGroup(m)

\* The body holds a character that is not white space.
HasText(m) == \E i \in 1..Len(m.body) : m.body[i] \notin WhiteSpace

\* The state of event e that a step leaves alone once its callback has returned
\* without queueing anything.
Discarded(e) ==
    /\ hpc'[e] = "done"
    /\ replies'[e] = replies[e]
    /\ e \notin Range(pushed')

(***************************************************************************)
(* C1: at most one queue item is being forwarded at any instant: two       *)
(* axios.post calls of the drain loop never overlap, however the           *)
(* message_create callbacks and procesarCola calls interleave.             *)
(***************************************************************************)
C1_OneForwardAtATime == Cardinality(Posting) <= 1

\* A forward is in flight while a later procesarCola call has left its item in
\* the queue.
C1_Witness == Posting # {} /\ cola # <<>> /\ Len(pushed) >= 2

C3_ForwardedInDeliveryOrder ==
    \A i, j \in 1..Len(forwarded) : i < j => forwarded[i] < forwarded[j]

(***************************************************************************)
(* C4: no item is dropped once enqueued: every item pushed onto the queue  *)
(* is eventually forwarded, whatever the earlier forwards and replies      *)
(* settled with.                                                           *)
(***************************************************************************)
C4_PushedIsForwarded ==
    \A e \in Events : (e \in Range(pushed)) ~> (e \in Range(forwarded))

\* An item is forwarded after the forward before it failed and the reply
\* reporting that failure failed too.
C4_Witness ==
    \E i \in 2..Len(forwarded) :
        /\ ReplyFailed(forwarded[i - 1])
        /\ forwarded[i] \in Range(pushed)

(***************************************************************************)
(* C5: each item is submitted to the extraction service exactly once: it   *)
(* is pushed once, its forward begins at most once, and once forwarded it  *)
(* is never back in the queue, whatever the forward settled with.          *)
(***************************************************************************)
C5_ForwardedOnce ==
    \A e \in Events :
        /\ Count(pushed, e) <= 1
        /\ Count(forwarded, e) <= 1
        /\ e \in Range(forwarded) => e \notin Range(cola)

\* The loop has gone on past an item whose forward failed.
C5_Witness ==
    \E e \in Events :
        /\ replies[e] # <<>>
        /\ verdict[e] = "queued"
        /\ \A a \in Events : act[a].cur # e
        /\ Count(forwarded, e) = 1

(***************************************************************************)
(* C6: the failure mapping: a forward that fails on a refused connection   *)
(* gets the "service unreachable" reply, one that fails on a timeout gets  *)
(* the "too slow" reply, any other failure gets the generic reply, and in  *)
(* each case exactly one reply is attempted for the item.                  *)
(***************************************************************************)
C6_FailureMapping ==
    \A a \in Events :
        (act[a].res.kind = "error" \/ act[a].res.body = "null") =>
            /\ Len(replies[act[a].cur]) = 1
            /\ replies[act[a].cur][1].text =
                 IF act[a].res.cond = "refused" THEN MsgApiCaida
                 ELSE IF act[a].res.cond \in {"socket_timeout", "request_timeout"}
                      THEN MsgTimeout
                 ELSE MsgGenerico

(***************************************************************************)
(* C7: when the extraction service returns a response, with the success    *)
(* flag set or not and with its optional fields present or absent, no      *)
(* reply is sent to the sender of that item.                               *)
(***************************************************************************)
C7_NoReplyOnResponse ==
    \A a \in Events :
        (act[a].res.kind = "response" /\ act[a].res.body = "object") =>
            /\ act[a].pc = "delay"
            /\ replies[act[a].cur] = <<>>

\* A reported-but-unsuccessful response has been handled.
C7_Witness ==
    \E a \in Events :
        /\ act[a].pc = "delay"
        /\ act[a].res.kind = "response"
        /\ ~act[a].res.success
        /\ replies[act[a].cur] = <<>>

(***************************************************************************)
(* C8: a failing msg.reply is swallowed: after a reply has failed, be it   *)
(* the report of a forwarding error or the "receipts only" notice, the     *)
(* drain loop still takes its delay, forwards what is queued and clears    *)
(* the guard when the queue is empty; no callback is left dead.            *)
(***************************************************************************)
C8_FailedReplySwallowed ==
    \A e \in Events : ReplyFailed(e) ~> (Quiet /\ hpc[e] = "done")

\* All is quiet again after the report of a forwarding error failed and the
\* loop went on to forward another item.
C8_Witness ==
    /\ Quiet
    /\ \A e \in Events : hpc[e] = "done"
    /\ \E i \in 1..Len(forwarded) : ReplyFailed(forwarded[i]) /\ i < Len(forwarded)

(***************************************************************************)
(* C9: an event that is fromMe, from the broadcast address or from a group *)
(* address produces no queue item, no reply and no download, whatever its  *)
(* hasMedia flag and body: its callback returns at once and nothing        *)
(* happens for it afterwards.                                              *)
(***************************************************************************)
C9_ExcludedIsSilent ==
    [][\A e \in Events :
         /\ (hpc[e] = "filter" /\ Excluded(msgs[e])) =>
                /\ Discarded(e)
                /\ verdict'[e] \in {"fromMe", "broadcast", "group"}
                /\ UNCHANGED <<cola, procesando, act, pushed, forwarded>>
         /\ verdict[e] \in {"fromMe", "broadcast", "group"} =>
                /\ Discarded(e)
                /\ verdict'[e] = verdict[e]]_vars

\* A group message and a broadcast message have been discarded, and nothing
\* else has happened.
C9_Witness ==
    /\ \A k \in {"broadcast", "group"} : \E e \in Events : verdict[e] = k
    /\ \A e \in Events : hpc[e] = "done" /\ replies[e] = <<>>
    /\ pushed = <<>>

(***************************************************************************)
(* C10 as stated: a non-excluded event without attachment gets exactly one *)
(* reply, the "receipts only" notice, when its body is non-empty, and none *)
(* when its body is empty; it produces no queue item.                      *)
(***************************************************************************)
C10_NoticeIffBodyNonEmpty ==
    [][\A e \in Events :
         (hpc[e] = "filter" /\ ~Excluded(msgs[e]) /\ ~msgs[e].hasMedia) =>
             /\ replies'[e] =
                  IF msgs[e].body # <<>>
                  THEN <<[text |-> MsgSoloComprobantes, st |-> "pending"]>>
                  ELSE <<>>
             /\ e \notin Range(pushed')]_vars

(***************************************************************************)
(* C10 amended: a non-excluded event without attachment gets exactly one   *)
(* reply, the "receipts only" notice, when its body holds a character that *)
(* is not white space, and none when its body is empty or white space      *)
(* only; it produces no queue item, and nothing but the settling of that   *)
(* reply happens for it afterwards.                                        *)
(***************************************************************************)
C10_NoticeIffBodyHasText ==
    [][\A e \in Events :
         /\ (hpc[e] = "filter" /\ ~Excluded(msgs[e]) /\ ~msgs[e].hasMedia) =>
                /\ replies'[e] =
                     IF HasText(msgs[e])
                     THEN <<[text |-> MsgSoloComprobantes, st |-> "pending"]>>
                     ELSE <<>>
                /\ hpc'[e] = IF HasText(msgs[e]) THEN "replying" ELSE "done"
                /\ UNCHANGED <<cola, procesando, act, pushed, forwarded>>
         /\ hpc[e] = "replying" =>
                /\ Len(replies'[e]) = 1
                /\ replies'[e][1].text = MsgSoloComprobantes
                /\ e \notin Range(pushed')
         /\ verdict[e] \in {"notice", "silent"} =>
                /\ Discarded(e)
                /\ Len(replies[e]) = IF verdict[e] = "notice" THEN 1 ELSE 0]_vars

\* One text message has had its notice and a white-space-only one was
\* discarded in silence.
C10_Witness ==
    /\ \E e \in Events : verdict[e] = "notice" /\ Len(replies[e]) = 1
    /\ \E e \in Events : verdict[e] = "silent" /\ replies[e] = <<>>

(***************************************************************************)
(* Vocabulary of the download branch.                                      *)
(***************************************************************************)
\* The media types the specification lets through.
AllowList == {"application/pdf", "image/jpeg", "image/png", "image/jpg"}

\* The activation that has e's POST in flight, if any.
Carrier(e) == {a \in Events : act[a].pc = "posting" /\ act[a].cur = e}

\* The media type of the payload downloaded for e: read off the media object
\* while it is held, off the POST body while that is in flight; "" when the
\* download gave no payload.
PayloadMime(e) ==
    IF media[e].kind = "media" THEN media[e].mimetype
    ELSE IF Carrier(e) # {} THEN act[CHOOSE a \in Carrier(e) : TRUE].req.mime_type
    ELSE ""

\* The callback of e resumes from its download in this step.
Downloaded(e) == hpc[e] = "downloading" /\ hpc'[e] = "done"

Rejections == {"downloadError", "noMedia", "unsupported"}

(***************************************************************************)
(* C11: a non-excluded event with an attachment whose download yields      *)
(* nothing, raises an error, or yields a media type outside the allow-list *)
(* produces no queue item and no reply: the step that ends its callback    *)
(* changes neither the queue nor the drain loop, and nothing happens for   *)
(* the event afterwards.                                                   *)
(***************************************************************************)
C11_UnusableDownloadIsSilent ==
    [][\A e \in Events :
         /\ (Downloaded(e) /\ PayloadMime(e)' \notin AllowList) =>
                /\ verdict'[e] \in Rejections
                /\ replies'[e] = <<>>
                /\ e \notin Range(pushed')
                /\ UNCHANGED <<replies, cola, procesando, act, pushed, forwarded>>
         /\ verdict[e] \in Rejections =>
                /\ Discarded(e)
                /\ replies[e] = <<>>
                /\ verdict'[e] = verdict[e]]_vars

\* A download that raised an error and a GIF image have both been dropped:
\* nothing was queued and nobody was written to.
C11_Witness ==
    /\ \E e \in Events : verdict[e] = "downloadError"
    /\ \E e \in Events : verdict[e] = "unsupported" /\ media[e].mimetype = "image/gif"
    /\ \A e \in Events : hpc[e] = "done" /\ replies[e] = <<>>
    /\ pushed = <<>>

(***************************************************************************)
(* C15: over the whole life of an event at most one reply is attempted on  *)
(* it: the "receipts only" notice if it was never queued, one failure      *)
(* notice if it was, never both and never two; while the response to its   *)
(* forward is held, and whenever its forward has not failed, the sender    *)
(* has been written nothing.                                               *)
(***************************************************************************)
C15_AtMostOneReply ==
    \A e \in Events :
        /\ Len(replies[e]) <= 1
        /\ replies[e] # <<>> =>
               IF e \in Range(pushed)
               THEN replies[e][1].text \in {MsgGenerico, MsgApiCaida, MsgTimeout}
               ELSE replies[e][1].text = MsgSoloComprobantes
        /\ (replies[e] # <<>> /\ e \in Range(pushed)) => e \in Range(forwarded)
        /\ \A a \in Events :
               (act[a].cur = e /\ act[a].res.kind = "response" /\ act[a].res.body = "object")
                   => replies[e] = <<>>

\* One event has had its notice, another its failure notice, and both
\* callbacks and the drain loop are over.
C15_Witness ==
    /\ Quiet
    /\ \E e \in Events : verdict[e] = "notice" /\ Len(replies[e]) = 1
    /\ \E e \in Events : verdict[e] = "queued" /\ Len(replies[e]) = 1

(***************************************************************************)
(* C16: the forward of an item does not begin until the forward of the     *)
(* item before it has completed and the 2-second delay after it has        *)
(* elapsed; the delay is taken after every item, whether its forward       *)
(* succeeded or failed: an iteration goes from its POST, by way of the     *)
(* failure reply if there is one, to its delay, and a forward begins only  *)
(* as the delay of the forward before it ends or when no loop is active.   *)
(***************************************************************************)
C16_DelayBetweenForwards ==
    [][/\ \A a \in Events :
            /\ act[a].pc = "posting" =>
                   /\ act'[a].pc \in {"posting", "replying", "delay"}
                   /\ act'[a].cur = act[a].cur
            /\ act[a].pc = "replying" =>
                   /\ act'[a].pc \in {"replying", "delay"}
                   /\ act'[a].cur = act[a].cur
       /\ forwarded' # forwarded =>
            IF procesando
            THEN \E a \in Events :
                    /\ act[a].pc = "delay"
                    /\ act[a].cur = forwarded[Len(forwarded)]
                    /\ \A b \in Events \ {a} : act[b].pc = "none"
            ELSE \A a \in Events : act[a].pc = "none"]_vars

\* The second of two items that waited together is being forwarded by the
\* loop that forwarded the first, whose forward had failed.
C16_Witness ==
    /\ Len(forwarded) = 2
    /\ replies[forwarded[1]] # <<>>
    /\ act[forwarded[1]].pc = "posting"
    /\ act[forwarded[1]].cur = forwarded[2]

(***************************************************************************)
(* C17: an enqueue appends the item to the tail of the queue and starts    *)
(* the drain loop only if none is active: a procesarCola call made while   *)
(* procesando is set returns without removing an item or starting a second *)
(* loop.  With finitely many items the loop eventually stops with the      *)
(* queue empty and procesando cleared, and an enqueue made after that      *)
(* starts a new loop that forwards the new item.                           *)
(***************************************************************************)
C17_DrainStartsAndStops ==
    /\ [][\A e \in Events :
            (e \notin Range(pushed) /\ e \in Range(pushed')) =>
                /\ pushed' = Append(pushed, e)
                /\ IF procesando
                   THEN /\ cola' = Append(cola, e)
                        /\ UNCHANGED <<procesando, act, forwarded>>
                   ELSE /\ cola' = Tail(Append(cola, e))
                        /\ procesando'
                        /\ forwarded' = Append(forwarded, Head(Append(cola, e)))
                        /\ act'[e].pc = "posting"
                        /\ act'[e].cur = Head(Append(cola, e))
                        /\ \A b \in Events \ {e} : act'[b] = act[b] /\ act[b].pc = "none"]_vars
    /\ procesando ~> Quiet
    /\ \A e \in Events : (e \in Range(pushed)) ~> (Quiet /\ e \in Range(forwarded))

\* A loop has drained the queue and stopped, and the enqueue of a later item
\* has started a new loop, which is forwarding that item.
C17_Witness ==
    /\ Len(forwarded) = 2
    /\ act[forwarded[1]].pc = "none"
    /\ act[forwarded[2]].pc = "posting"
    /\ act[forwarded[2]].cur = forwarded[2]
    /\ procesando /\ cola = <<>>

\* The items whose forward begins in this step, in order.
Begun == SubSeq(forwarded', Len(forwarded) + 1, Len(forwarded'))

(***************************************************************************)
(* C18: an event produces a queue item if and only if it is not fromMe,    *)
(* its sender is neither the broadcast address nor a group, it has an      *)
(* attachment, the download returns a payload and the payload's media type *)
(* is in the allow-list; exactly one item, pairing that payload with that  *)
(* event, is then appended to the tail of the queue.                       *)
(***************************************************************************)
C18_QueuedIffEligible ==
    [][\A e \in Events :
         /\ hpc[e] = "filter" =>
                /\ hpc'[e] = "downloading" <=> (~Excluded(msgs[e]) /\ msgs[e].hasMedia)
                /\ hpc'[e] = "downloading" => msgs'[e] = msgs[e]
                /\ e \notin Range(pushed')
         /\ Downloaded(e) =>
                /\ e \in Range(pushed') <=> PayloadMime(e)' \in AllowList
                /\ e \in Range(pushed') =>
                       /\ pushed' = Append(pushed, e)
                       /\ Append(cola, e) = Begun \o cola'
                       /\ IF e \in Range(cola')
                          THEN msgs'[e] = msgs[e] /\ media'[e].kind = "media"
                          ELSE act'[e].req =
                                 Request(msgs[e], [kind |-> "media",
                                                   mimetype |-> PayloadMime(e)'])
         /\ (e \in Range(pushed') /\ e \notin Range(pushed)) => Downloaded(e)]_vars

\* A PDF sent by a contact waits in the queue with its event, behind the
\* forward in flight.
C18_Witness ==
    \E e \in Events :
        /\ cola = <<e>>
        /\ Posting # {}
        /\ media[e].mimetype = "application/pdf"
        /\ msgs[e].hasMedia /\ ~Excluded(msgs[e])

\* The procesarCola calls that are inside the while loop.
Draining == {a \in Events : act[a].pc \in {"posting", "replying", "delay"}}

(***************************************************************************)
(* C19: no item is stranded: whenever control is back at the event loop, a *)
(* non-empty queue implies that procesando is set, and procesando is set   *)
(* exactly when one procesarCola call is inside its loop, one that will    *)
(* test the queue again; procesando is clear only when the queue is empty. *)
(* This holds for an item pushed during the 2-second delay that follows    *)
(* the last queued item too.                                               *)
(***************************************************************************)
C19_NoStrandedItem ==
    /\ cola # <<>> => procesando
    /\ procesando <=> Cardinality(Draining) = 1
    /\ \A a \in Events : act[a].pc = "none" \/ a \in Draining
    /\ ~procesando => cola = <<>> /\ Range(pushed) = Range(forwarded)

\* An item was pushed during the delay that follows the forward of the only
\* item there was: the loop has not tested the queue yet.
C19_Witness ==
    \E a \in Events :
        /\ act[a].pc = "delay"
        /\ forwarded = <<a>>
        /\ cola # <<>>
        /\ procesando

(***************************************************************************)
(* Vocabulary of the session's supervision.                                *)
(***************************************************************************)
\* The client.initialize() calls that have not settled.
Initializing == initializing.startup + initializing.reconnect

(***************************************************************************)
(* C12: every disconnected event is followed, after the delay, by exactly  *)
(* one client.initialize() call caused by it, with no cap and no condition *)
(* that suppresses it: each event arms one reconnect timer, each timer     *)
(* makes one call, and no timer is left armed in a process that has        *)
(* stopped.                                                                *)
(***************************************************************************)
C12_DisconnectReinitializes ==
    /\ disconnects = timers + reconnects
    /\ ~alive => timers = 0

(***************************************************************************)
(* C13: the supervision keeps one session: at most one initialization is   *)
(* in progress at any time, client.initialize() being never called while   *)
(* an earlier call is still pending.                                       *)
(***************************************************************************)
C13_OneInitialization == Initializing <= 1

(***************************************************************************)
(* C14: no failure of the session's lifecycle ends the process: after an   *)
(* authentication failure, a disconnect, a failed initialize at startup or *)
(* a failed initialize after a disconnect, the process is still running.   *)
(***************************************************************************)
C14_ProcessSurvives == alive

====
